---------------------------- MODULE Spec2Model ----------------------------
(***************************************************************************)
(* Fruit Supply Project: the FastAPI service of main.py, the Celery task   *)
(* of tasks.py and the beat schedule of celery_worker.py, over the three   *)
(* MongoDB collections fruits, orders and inventory.                       *)
(*                                                                         *)
(* Every handler issues exactly one store operation, so a handler is one   *)
(* action.  The Reset Task is two steps (a worker takes it off the queue,  *)
(* then its update_one reaches the store), so API writes interleave with   *)
(* a task that has already started.                                        *)
(*                                                                         *)
(* Values.  A Python str used as an id is a tuple of characters.  An       *)
(* ObjectId is [oid |-> its lower-case hex digits]; the driver's ids have  *)
(* 24 digits, of which the model keeps the last OidHexLen.  A Python int   *)
(* is unbounded, so it is the tuple of its base-65536 digits, least digit  *)
(* first (5 is <<5>>, 2^63 is <<0, 0, 0, 32768>>); BSON stores it in at    *)
(* most eight bytes.  A float is stood for by a number.                    *)
(***************************************************************************)
EXTENDS Integers, Sequences, FiniteSets, TLC

VARIABLES
    started,      \* the startup event has run and requests are served
    fruitIndex,   \* the unique index on fruits.name exists
    fruits,       \* documents of fruit_supply_db.fruits
    orders,       \* documents of fruit_supply_db.orders
    inventory,    \* documents of fruit_supply_db.inventory
    nextOid,      \* how many ObjectIds the driver has generated
    tasks,        \* reset tasks queued or running on a worker
    nextTask,     \* how many tasks have been enqueued
    last,         \* the operation that ran last: inputs, response, store before
    added,        \* history: fruit name -> payload and id of its add_fruit,
                  \*   dropped by an update or delete of that name
    issued,       \* history: the id strings place_order / add_inventory returned
    written,      \* history: inventory ObjectId -> the values of the write the
                  \*   store applied last (and of the last whole-item write)
    raced         \* history: ids of running tasks whose record an API write
                  \*   has changed since the task started

vars == <<started, fruitIndex, fruits, orders, inventory, nextOid, tasks,
          nextTask, last, added, issued, written, raced>>

-----------------------------------------------------------------------------
(* Bounds *)

MaxOids == 2

MaxTasks == 1

-----------------------------------------------------------------------------
(* bson.objectid.ObjectId *)

OidHexLen == 4

LowerHex == <<"0", "1", "2", "3", "4", "5", "6", "7", "8", "9",
              "a", "b", "c", "d", "e", "f">>

UpperHex == <<"0", "1", "2", "3", "4", "5", "6", "7", "8", "9",
              "A", "B", "C", "D", "E", "F">>

Range(f) == {f[i] : i \in DOMAIN f}

HexChars == Range(LowerHex) \cup Range(UpperHex)

IsHexChar(c) == c \in HexChars

\* The lower-case form of each hexadecimal digit.
LowerOf ==
    [c \in HexChars |->
        IF c \in Range(LowerHex) THEN c
        ELSE LowerHex[CHOOSE k \in DOMAIN UpperHex : UpperHex[k] = c]]

ToLower(c) == LowerOf[c]

\* ObjectId.is_valid for a str: OidHexLen (24 in the driver) hexadecimal
\* digits of either case.
ValidOidStr(s) ==
    /\ Len(s) = OidHexLen
    /\ \A i \in 1..Len(s) : IsHexChar(s[i])

\* ObjectId(s) for a valid s (an invalid s raises bson.errors.InvalidId).
ObjectId(s) == [oid |-> [i \in 1..Len(s) |-> ToLower(s[i])]]

\* str(ObjectId): the lower-case hex digits.
OidStr(o) == o.oid

\* The n-th ObjectId the driver generates for a document without _id.
GenOid(n) ==
    [oid |-> [i \in 1..OidHexLen |->
                 IF i = OidHexLen THEN LowerHex[10 + n] ELSE "0"]]

NoId == << >>

-----------------------------------------------------------------------------
(* Python int and BSON int64 *)

\* bson encodes an int in four or eight bytes and raises OverflowError
\* beyond: here for n >= 0, n < 2^63.
FitsInt64(n) == \/ Len(n) < 4
                \/ Len(n) = 4 /\ n[4] < 32768

NoInt == << >>


-----------------------------------------------------------------------------
(* Request inputs *)

Big == <<0, 0, 0, 32768>>     \* 2^63, a valid Python int

Apple ==
    [name |-> "Apple", region |-> "Kashmir", season |-> "Autumn",
     shelf_life_days |-> <<30>>, price |-> 120, ripe |-> FALSE]

AppleAgain ==
    [name |-> "Apple", region |-> "Shimla", season |-> "Winter",
     shelf_life_days |-> <<20>>, price |-> 90, ripe |-> TRUE]

Mango ==
    [name |-> "Mango", region |-> "Ratnagiri", season |-> "Summer",
     shelf_life_days |-> <<7>>, price |-> 45, ripe |-> TRUE]

Kiwi ==
    [name |-> "Kiwi", region |-> "Nilgiris", season |-> "Winter",
     shelf_life_days |-> Big, price |-> 200, ripe |-> FALSE]

FruitPayloads == {Apple, AppleAgain, Mango, Kiwi}

FruitNames == {f.name : f \in FruitPayloads}

NewPrices == {60}

OrderPayloads ==
    { [fruit_name |-> "Mango", quantity |-> <<2>>,
       delivery_address |-> "12 MG Road", total_price |-> 90,
       delivery_type |-> "standard", comments |-> << >>],
      [fruit_name |-> "Apple", quantity |-> <<1>>,
       delivery_address |-> "7 Park Street", total_price |-> 120,
       delivery_type |-> "express", comments |-> <<"ring twice">>],
      [fruit_name |-> "Apple", quantity |-> Big,
       delivery_address |-> "7 Park Street", total_price |-> 120,
       delivery_type |-> "express", comments |-> << >>] }

InventoryPayloads ==
    { [fruit |-> Apple, quantity |-> <<5>>,
       last_updated |-> "2026-01-01T00:00:00"],
      [fruit |-> Mango, quantity |-> <<9>>,
       last_updated |-> "2026-02-01T00:00:00"] }

Quantities == {<<7>>, Big}

\* celery_worker.py line 15: the arguments of the daily schedule entry,
\* "697bb2385a71768f00baf088" cut to its last OidHexLen digits, and 100.
BeatId == <<"f", "0", "8", "8">>

BeatQuantity == <<100>>

UpperStr(s) ==
    [i \in 1..Len(s) |->
        IF s[i] \in Range(UpperHex) THEN s[i]
        ELSE UpperHex[CHOOSE k \in DOMAIN LowerHex : LowerHex[k] = s[i]]]

Malformed == <<"x", "y", "z">>

\* The id strings a client sends: the ids the service can have returned,
\* one of them in upper case, the schedule's id, and a malformed one.
IdStrings ==
    {OidStr(GenOid(n)) : n \in 1..MaxOids}
        \cup {UpperStr(OidStr(GenOid(1))), BeatId, Malformed}

-----------------------------------------------------------------------------
(* pymongo Collection operations on a set of documents *)

NoDoc == [none |-> TRUE]

Matching(coll, key, val) == {d \in coll : d[key] = val}

\* find_one: a matching document or None.
FindOne(coll, key, val) ==
    IF Matching(coll, key, val) = {} THEN NoDoc
    ELSE CHOOSE d \in Matching(coll, key, val) : TRUE

\* {"$set": upd}: the named fields are overwritten, the others kept.
SetFields(d, upd) ==
    [k \in DOMAIN d \cup DOMAIN upd |->
        IF k \in DOMAIN upd THEN upd[k] ELSE d[k]]

\* Mutant of UpdateOne: upsert=True, a missing document is created.
UpdateOneUpsert(coll, key, val, upd) ==
    IF Matching(coll, key, val) = {}
    THEN [matched_count |-> 0,
          coll |-> coll \cup {SetFields([k \in {key} |-> val], upd)}]
    ELSE LET d == CHOOSE d \in Matching(coll, key, val) : TRUE
         IN  [matched_count |-> 1,
              coll |-> (coll \ {d}) \cup {SetFields(d, upd)}]

\* update_one(filter, {"$set": upd}) without upsert.
UpdateOne(coll, key, val, upd) ==
    IF Matching(coll, key, val) = {}
    THEN [matched_count |-> 0, coll |-> coll]
    ELSE LET d == CHOOSE d \in Matching(coll, key, val) : TRUE
         IN  [matched_count |-> 1,
              coll |-> (coll \ {d}) \cup {SetFields(d, upd)}]

\* delete_one(filter).
DeleteOne(coll, key, val) ==
    IF Matching(coll, key, val) = {}
    THEN [deleted_count |-> 0, coll |-> coll]
    ELSE LET d == CHOOSE d \in Matching(coll, key, val) : TRUE
         IN  [deleted_count |-> 1, coll |-> coll \ {d}]

\* Mutant of InsertOne: the index is there but does not reject anything.
InsertOneNotUnique(coll, doc, oid, uniqueKey) ==
    [exc |-> "", coll |-> coll \cup {SetFields(doc, [_id |-> oid])},
     inserted_id |-> oid]

\* insert_one(doc): the driver adds a fresh _id; a unique index on
\* uniqueKey (when there is one) rejects a second document with that key.
InsertOne(coll, doc, oid, uniqueKey) ==
    IF uniqueKey # "" /\ Matching(coll, uniqueKey, doc[uniqueKey]) # {}
    THEN [exc |-> "DuplicateKeyError", coll |-> coll, inserted_id |-> oid]
    ELSE [exc |-> "", coll |-> coll \cup {SetFields(doc, [_id |-> oid])},
          inserted_id |-> oid]

NamesIn(coll) == {d.name : d \in coll}

IdsIn(coll) == {OidStr(d._id) : d \in coll}

OidsIn(coll) == {d._id : d \in coll}

\* The exception a store call raises before it changes anything: the server
\* cannot be reached, or a document holds an int BSON cannot encode.
StoreExc(net, encodable) ==
    IF ~net THEN "ServerSelectionTimeoutError"
    ELSE IF ~encodable THEN "OverflowError"
    ELSE ""

-----------------------------------------------------------------------------
(* Pydantic models and their json.loads(model.json()) dictionaries *)

\* Mutant of FruitDict: region and season change places.
FruitDictSwapped(f) ==
    [name |-> f.name, region |-> f.season, season |-> f.region,
     shelf_life_days |-> f.shelf_life_days, price |-> f.price,
     ripe |-> f.ripe]

FruitDict(f) ==
    [name |-> f.name, region |-> f.region, season |-> f.season,
     shelf_life_days |-> f.shelf_life_days, price |-> f.price,
     ripe |-> f.ripe]

OrderDict(o) ==
    [fruit_name |-> o.fruit_name, quantity |-> o.quantity,
     delivery_address |-> o.delivery_address,
     total_price |-> o.total_price, delivery_type |-> o.delivery_type,
     comments |-> o.comments]

InventoryDict(i) ==
    [fruit |-> FruitDict(i.fruit), quantity |-> i.quantity,
     last_updated |-> i.last_updated]

-----------------------------------------------------------------------------
(* Responses *)

Ok(message, id, doc) ==
    [kind |-> "ok", message |-> message, exc |-> "", id |-> id, doc |-> doc]

\* {"error": message}; exc is the exception the message was built from.
Err(message, exc) ==
    [kind |-> "error", message |-> message, exc |-> exc, id |-> NoId,
     doc |-> NoDoc]

\* An exception that leaves the handler or the task uncaught.
Raised(exc) ==
    [kind |-> "exception", message |-> "", exc |-> exc, id |-> NoId,
     doc |-> NoDoc]


-----------------------------------------------------------------------------
(* main.py: what each handler returns and what it leaves in its collection. *)
(* net: the store answers this call.  oid: the id insert_one would add.     *)

AddFruit(coll, unique, fruit, oid, net) ==
    LET fruit_dict == FruitDict(fruit)
        exc == StoreExc(net, FitsInt64(fruit_dict.shelf_life_days))
        result == InsertOne(coll, fruit_dict, oid,
                            IF unique THEN "name" ELSE "")
        msg == "Error occurred while adding fruit to database"
    IN  IF exc # "" THEN [resp |-> Err(msg, exc), coll |-> coll]
        ELSE IF result.exc # ""
        THEN [resp |-> Err(msg, result.exc), coll |-> result.coll]
        ELSE [resp |-> Ok("Fruit added successfully",
                          OidStr(result.inserted_id), NoDoc),
              coll |-> result.coll]

GetFruit(coll, fruit_name, net) ==
    IF ~net
    THEN [resp |-> Raised(StoreExc(net, TRUE)), coll |-> coll]
    ELSE LET fruit == FindOne(coll, "name", fruit_name)
         IN  IF fruit = NoDoc
             THEN [resp |-> Err("Fruit not found", ""), coll |-> coll]
             ELSE [resp |-> Ok("", NoId,
                               SetFields(fruit, [_id |-> OidStr(fruit._id)])),
                   coll |-> coll]

UpdateFruitPrice(coll, fruit_name, new_price, net) ==
    IF ~net
    THEN [resp |-> Raised(StoreExc(net, TRUE)), coll |-> coll]
    ELSE LET result == UpdateOne(coll, "name", fruit_name,
                                 [price |-> new_price])
         IN  IF result.matched_count = 0
             THEN [resp |-> Err("Fruit not found", ""),
                   coll |-> result.coll]
             ELSE [resp |-> Ok("Fruit price updated successfully", NoId,
                               NoDoc),
                   coll |-> result.coll]

DeleteFruit(coll, fruit_name, net) ==
    IF ~net
    THEN [resp |-> Raised(StoreExc(net, TRUE)), coll |-> coll]
    ELSE LET result == DeleteOne(coll, "name", fruit_name)
         IN  IF result.deleted_count = 0
             THEN [resp |-> Err("Fruit not found", ""),
                   coll |-> result.coll]
             ELSE [resp |-> Ok("Fruit deleted successfully", NoId, NoDoc),
                   coll |-> result.coll]

\* Mutant of PlaceOrder: the order is refused unless the catalog has the fruit.
PlaceOrderChecked(coll, order, oid, net) ==
    IF OrderDict(order).fruit_name \notin NamesIn(fruits)
    THEN [resp |-> Err("Error occurred while placing order", ""),
          coll |-> coll]
    ELSE [resp |-> Ok("Order placed successfully", OidStr(oid), NoDoc),
          coll |-> InsertOne(coll, OrderDict(order), oid, "").coll]

PlaceOrder(coll, order, oid, net) ==
    LET order_dict == OrderDict(order)
        exc == StoreExc(net, FitsInt64(order_dict.quantity))
        result == InsertOne(coll, order_dict, oid, "")
    IN  IF exc # ""
        THEN [resp |-> Err("Error occurred while placing order", exc),
              coll |-> coll]
        ELSE [resp |-> Ok("Order placed successfully",
                          OidStr(result.inserted_id), NoDoc),
              coll |-> result.coll]

\* get_order and get_inventory: find_one by ObjectId inside try/except.
GetById(coll, id, net, notFound, failed) ==
    IF ~ValidOidStr(id)
    THEN [resp |-> Err(failed, "InvalidId"), coll |-> coll]
    ELSE IF ~net
    THEN [resp |-> Err(failed, StoreExc(net, TRUE)), coll |-> coll]
    ELSE LET d == FindOne(coll, "_id", ObjectId(id))
         IN  IF d = NoDoc
             THEN [resp |-> Err(notFound, ""), coll |-> coll]
             ELSE [resp |-> Ok("", NoId,
                               SetFields(d, [_id |-> OidStr(d._id)])),
                   coll |-> coll]

\* Mutant of UpdateById: update_one(..., upsert=True).
UpdateByIdUpsert(coll, id, upd, encodable, net, done, notFound, failed) ==
    IF ~ValidOidStr(id)
    THEN [resp |-> Err(failed, "InvalidId"), coll |-> coll]
    ELSE IF StoreExc(net, encodable) # ""
    THEN [resp |-> Err(failed, StoreExc(net, encodable)), coll |-> coll]
    ELSE LET result == UpdateOneUpsert(coll, "_id", ObjectId(id), upd)
         IN  IF result.matched_count = 0
             THEN [resp |-> Err(notFound, ""), coll |-> result.coll]
             ELSE [resp |-> Ok(done, NoId, NoDoc), coll |-> result.coll]

\* update_order, update_inventory and update_inventory_quantity:
\* update_one by ObjectId with {"$set": upd} inside try/except.
UpdateById(coll, id, upd, encodable, net, done, notFound, failed) ==
    IF ~ValidOidStr(id)
    THEN [resp |-> Err(failed, "InvalidId"), coll |-> coll]
    ELSE IF StoreExc(net, encodable) # ""
    THEN [resp |-> Err(failed, StoreExc(net, encodable)), coll |-> coll]
    ELSE LET result == UpdateOne(coll, "_id", ObjectId(id), upd)
         IN  IF result.matched_count = 0
             THEN [resp |-> Err(notFound, ""), coll |-> result.coll]
             ELSE [resp |-> Ok(done, NoId, NoDoc), coll |-> result.coll]

\* delete_order and delete_inventory: delete_one by ObjectId in try/except.
DeleteById(coll, id, net, done, notFound, failed) ==
    IF ~ValidOidStr(id)
    THEN [resp |-> Err(failed, "InvalidId"), coll |-> coll]
    ELSE IF ~net
    THEN [resp |-> Err(failed, StoreExc(net, TRUE)), coll |-> coll]
    ELSE LET result == DeleteOne(coll, "_id", ObjectId(id))
         IN  IF result.deleted_count = 0
             THEN [resp |-> Err(notFound, ""), coll |-> result.coll]
             ELSE [resp |-> Ok(done, NoId, NoDoc), coll |-> result.coll]

GetOrder(coll, order_id, net) ==
    GetById(coll, order_id, net, "Order not found",
            "Error occurred while retrieving order")

UpdateOrder(coll, order_id, order, net) ==
    UpdateById(coll, order_id, OrderDict(order),
               FitsInt64(OrderDict(order).quantity), net,
               "Order updated successfully", "Order not found",
               "Error occurred while updating order")

DeleteOrder(coll, order_id, net) ==
    DeleteById(coll, order_id, net, "Order deleted successfully",
               "Order not found", "Error occurred while deleting order")

AddInventory(coll, item, oid, net) ==
    LET item_dict == InventoryDict(item)
        exc == StoreExc(net, /\ FitsInt64(item_dict.quantity)
                             /\ FitsInt64(item_dict.fruit.shelf_life_days))
        result == InsertOne(coll, item_dict, oid, "")
    IN  IF exc # ""
        THEN [resp |-> Err("Error occurred while adding inventory item", exc),
              coll |-> coll]
        ELSE [resp |-> Ok("Inventory item added successfully",
                          OidStr(result.inserted_id), NoDoc),
              coll |-> result.coll]

GetInventory(coll, inventory_id, net) ==
    GetById(coll, inventory_id, net, "Inventory item not found",
            "Error occurred while retrieving inventory item")

UpdateInventory(coll, inventory_id, item, net) ==
    UpdateById(coll, inventory_id, InventoryDict(item),
               /\ FitsInt64(InventoryDict(item).quantity)
               /\ FitsInt64(InventoryDict(item).fruit.shelf_life_days),
               net, "Inventory item updated successfully",
               "Inventory item not found",
               "Error occurred while updating inventory item")

\* Mutant of UpdateInventoryQuantity: the field name is misspelt.
UpdateInventoryQuantityTypo(coll, inventory_id, new_quantity, net) ==
    UpdateById(coll, inventory_id, [quantiy |-> new_quantity],
               FitsInt64(new_quantity), net,
               "Inventory quantity updated successfully",
               "Inventory item not found",
               "Error occurred while updating inventory quantity")

UpdateInventoryQuantity(coll, inventory_id, new_quantity, net) ==
    UpdateById(coll, inventory_id, [quantity |-> new_quantity],
               FitsInt64(new_quantity), net,
               "Inventory quantity updated successfully",
               "Inventory item not found",
               "Error occurred while updating inventory quantity")

DeleteInventory(coll, inventory_id, net) ==
    DeleteById(coll, inventory_id, net,
               "Inventory item deleted successfully",
               "Inventory item not found",
               "Error occurred while deleting inventory item")

-----------------------------------------------------------------------------
(* tasks.py *)

\* Mutant of ResetInventoryData: the quantity is reset to zero.
ResetInventoryDataZero(coll, inventory_id, new_quantity, net) ==
    IF ~ValidOidStr(inventory_id)
    THEN [resp |-> Raised("InvalidId"), coll |-> coll]
    ELSE IF StoreExc(net, FitsInt64(new_quantity)) # ""
    THEN [resp |-> Raised(StoreExc(net, FitsInt64(new_quantity))),
          coll |-> coll]
    ELSE [resp |-> Ok("Reset inventory data", NoId, NoDoc),
          coll |-> UpdateOne(coll, "_id", ObjectId(inventory_id),
                             [quantity |-> <<0>>]).coll]

\* Mutant of ResetInventoryData: the update also stamps last_updated.
ResetInventoryDataStamped(coll, inventory_id, new_quantity, net) ==
    IF ~ValidOidStr(inventory_id)
    THEN [resp |-> Raised("InvalidId"), coll |-> coll]
    ELSE IF StoreExc(net, FitsInt64(new_quantity)) # ""
    THEN [resp |-> Raised(StoreExc(net, FitsInt64(new_quantity))),
          coll |-> coll]
    ELSE [resp |-> Ok("Reset inventory data", NoId, NoDoc),
          coll |-> UpdateOne(coll, "_id", ObjectId(inventory_id),
                             [quantity |-> new_quantity,
                              last_updated |-> "2026-03-01T22:40:00"]).coll]

\* Mutant of ResetInventoryData: read-modify-write. The document as it was
\* before the latest call is written back whole with the new quantity.
ResetInventoryDataStale(coll, inventory_id, new_quantity, net) ==
    IF ~ValidOidStr(inventory_id)
    THEN [resp |-> Raised("InvalidId"), coll |-> coll]
    ELSE IF StoreExc(net, FitsInt64(new_quantity)) # ""
    THEN [resp |-> Raised(StoreExc(net, FitsInt64(new_quantity))),
          coll |-> coll]
    ELSE LET old == FindOne(last.pre.inventory, "_id",
                            ObjectId(inventory_id))
         IN  [resp |-> Ok("Reset inventory data", NoId, NoDoc),
              coll |-> IF old = NoDoc THEN coll
                       ELSE UpdateOne(coll, "_id", ObjectId(inventory_id),
                                      [fruit |-> old.fruit,
                                       last_updated |-> old.last_updated,
                                       quantity |-> new_quantity]).coll]

\* reset_inventory_data: no try/except and no look at the update's result.
ResetInventoryData(coll, inventory_id, new_quantity, net) ==
    IF ~ValidOidStr(inventory_id)
    THEN [resp |-> Raised("InvalidId"), coll |-> coll]
    ELSE IF StoreExc(net, FitsInt64(new_quantity)) # ""
    THEN [resp |-> Raised(StoreExc(net, FitsInt64(new_quantity))),
          coll |-> coll]
    ELSE [resp |-> Ok("Reset inventory data", NoId, NoDoc),
          coll |-> UpdateOne(coll, "_id", ObjectId(inventory_id),
                             [quantity |-> new_quantity]).coll]

\* The id of the n-th task handed to the broker.
TaskId(n) == <<"t", LowerHex[n + 1]>>

\* reset_inventory_data.delay(id, q): one message on the queue.
Delay(queue, n, inventory_id, new_quantity) ==
    queue \cup {[task_id |-> TaskId(n), inventory_id |-> inventory_id,
                 new_quantity |-> new_quantity, status |-> "queued"]}


-----------------------------------------------------------------------------
(* State *)

Store == [fruits |-> fruits, orders |-> orders, inventory |-> inventory,
          tasks |-> tasks]

\* The record of an operation that has just run.
NoCall == [op |-> "", id |-> NoId, num |-> NoInt, net |-> TRUE, kind |-> ""]

Call(op, id, name, num, price, body, net, resp) ==
    [op |-> op, id |-> id, name |-> name, num |-> num, price |-> price,
     body |-> body, net |-> net, resp |-> resp, pre |-> Store,
     prev |-> NoCall]

\* What get_inventory remembers of the call that ran right before it.
Before == [op |-> last.op, id |-> last.id, num |-> last.num,
           net |-> last.net, kind |-> last.resp.kind]

AllOids == {GenOid(n) : n \in 1..MaxOids}

\* No call is being answered.
Idle ==
    [op |-> "idle", id |-> NoId, name |-> "", num |-> NoInt, price |-> 0,
     body |-> NoDoc, net |-> TRUE, resp |-> Ok("", NoId, NoDoc),
     pre |-> [fruits |-> {}, orders |-> {}, inventory |-> {}, tasks |-> {}],
     prev |-> NoCall]

Init ==
    /\ started = FALSE
    /\ fruitIndex = FALSE
    /\ fruits = {}
    /\ orders = {}
    /\ inventory = {}
    /\ nextOid = 0
    /\ tasks = {}
    /\ nextTask = 0
    /\ last = Idle
    /\ added = [n \in FruitNames |-> NoDoc]
    /\ issued = [orders |-> {}, inventory |-> {}]
    /\ written = [o \in AllOids |-> NoDoc]
    /\ raced = {}

\* The running tasks aimed at the record an API write has just changed.
RunningOn(id) ==
    {t.task_id : t \in {u \in tasks :
        /\ u.status = "running"
        /\ ValidOidStr(u.inventory_id)
        /\ ObjectId(u.inventory_id) = ObjectId(id)}}

-----------------------------------------------------------------------------
(* main.py: the startup event and the handlers *)

\* create_index("name", unique=True); a failure keeps the app from serving.
startup_event(net) ==
    /\ ~started
    /\ LET dup == \E a, b \in fruits : a # b /\ a.name = b.name
           exc == IF ~net THEN StoreExc(net, TRUE)
                  ELSE IF dup THEN "DuplicateKeyError" ELSE ""
       IN  /\ started' = (exc = "")
           /\ fruitIndex' = (fruitIndex \/ exc = "")
           /\ last' = Call("startup_event", NoId, "", NoInt, 0, NoDoc, net,
                           IF exc = "" THEN Ok("", NoId, NoDoc)
                           ELSE Raised(exc))
    /\ UNCHANGED <<fruits, orders, inventory, nextOid, tasks, nextTask,
                   added, issued, written, raced>>

add_fruit(fruit, net) ==
    /\ started
    /\ nextOid < MaxOids
    /\ LET r == AddFruit(fruits, fruitIndex, fruit, GenOid(nextOid + 1), net)
       IN  /\ fruits' = r.coll
           /\ nextOid' = IF r.resp.kind = "ok" THEN nextOid + 1 ELSE nextOid
           /\ added' = IF r.resp.kind = "ok"
                       THEN [added EXCEPT ![fruit.name] =
                                [fruit |-> fruit, fruit_id |-> r.resp.id]]
                       ELSE added
           /\ last' = Call("add_fruit", NoId, fruit.name, NoInt, 0, fruit,
                           net, r.resp)
    /\ UNCHANGED <<started, fruitIndex, orders, inventory, tasks, nextTask,
                   issued, written, raced>>

get_fruit(fruit_name, net) ==
    /\ started
    /\ LET r == GetFruit(fruits, fruit_name, net)
       IN  /\ fruits' = r.coll
           /\ last' = Call("get_fruit", NoId, fruit_name, NoInt, 0, NoDoc,
                           net, r.resp)
    /\ UNCHANGED <<started, fruitIndex, orders, inventory, nextOid, tasks,
                   nextTask, added, issued, written, raced>>

update_fruit_price(fruit_name, new_price, net) ==
    /\ started
    /\ LET r == UpdateFruitPrice(fruits, fruit_name, new_price, net)
       IN  /\ fruits' = r.coll
           /\ added' = IF r.resp.kind = "ok"
                       THEN [added EXCEPT ![fruit_name] = NoDoc] ELSE added
           /\ last' = Call("update_fruit_price", NoId, fruit_name, NoInt,
                           new_price, NoDoc, net, r.resp)
    /\ UNCHANGED <<started, fruitIndex, orders, inventory, nextOid, tasks,
                   nextTask, issued, written, raced>>

delete_fruit(fruit_name, net) ==
    /\ started
    /\ LET r == DeleteFruit(fruits, fruit_name, net)
       IN  /\ fruits' = r.coll
           /\ added' = IF r.resp.kind = "ok"
                       THEN [added EXCEPT ![fruit_name] = NoDoc] ELSE added
           /\ last' = Call("delete_fruit", NoId, fruit_name, NoInt, 0, NoDoc,
                           net, r.resp)
    /\ UNCHANGED <<started, fruitIndex, orders, inventory, nextOid, tasks,
                   nextTask, issued, written, raced>>

place_order(order, net) ==
    /\ started
    /\ nextOid < MaxOids
    /\ LET r == PlaceOrder(orders, order, GenOid(nextOid + 1), net)
       IN  /\ orders' = r.coll
           /\ nextOid' = IF r.resp.kind = "ok" THEN nextOid + 1 ELSE nextOid
           /\ issued' = IF r.resp.kind = "ok"
                        THEN [issued EXCEPT !.orders = @ \cup {r.resp.id}]
                        ELSE issued
           /\ last' = Call("place_order", NoId, "", NoInt, 0, order, net,
                           r.resp)
    /\ UNCHANGED <<started, fruitIndex, fruits, inventory, tasks, nextTask,
                   added, written, raced>>

get_order(order_id, net) ==
    /\ started
    /\ LET r == GetOrder(orders, order_id, net)
       IN  /\ orders' = r.coll
           /\ last' = Call("get_order", order_id, "", NoInt, 0, NoDoc, net,
                           r.resp)
    /\ UNCHANGED <<started, fruitIndex, fruits, inventory, nextOid, tasks,
                   nextTask, added, issued, written, raced>>

update_order(order_id, order, net) ==
    /\ started
    /\ LET r == UpdateOrder(orders, order_id, order, net)
       IN  /\ orders' = r.coll
           /\ last' = Call("update_order", order_id, "", NoInt, 0, order,
                           net, r.resp)
    /\ UNCHANGED <<started, fruitIndex, fruits, inventory, nextOid, tasks,
                   nextTask, added, issued, written, raced>>

delete_order(order_id, net) ==
    /\ started
    /\ LET r == DeleteOrder(orders, order_id, net)
       IN  /\ orders' = r.coll
           /\ last' = Call("delete_order", order_id, "", NoInt, 0, NoDoc,
                           net, r.resp)
    /\ UNCHANGED <<started, fruitIndex, fruits, inventory, nextOid, tasks,
                   nextTask, added, issued, written, raced>>

add_inventory(item, net) ==
    /\ started
    /\ nextOid < MaxOids
    /\ LET oid == GenOid(nextOid + 1)
           r == AddInventory(inventory, item, oid, net)
       IN  /\ inventory' = r.coll
           /\ nextOid' = IF r.resp.kind = "ok" THEN nextOid + 1 ELSE nextOid
           /\ issued' = IF r.resp.kind = "ok"
                        THEN [issued EXCEPT !.inventory = @ \cup {r.resp.id}]
                        ELSE issued
           /\ written' = IF r.resp.kind = "ok"
                         THEN [written EXCEPT ![oid] =
                                  [quantity |-> item.quantity,
                                   fruit |-> item.fruit,
                                   last_updated |-> item.last_updated,
                                   by |-> "add_inventory"]]
                         ELSE written
           /\ last' = Call("add_inventory", NoId, "", NoInt, 0, item, net,
                           r.resp)
    /\ UNCHANGED <<started, fruitIndex, fruits, orders, tasks, nextTask,
                   added, raced>>

get_inventory(inventory_id, net) ==
    /\ started
    /\ LET r == GetInventory(inventory, inventory_id, net)
       IN  /\ inventory' = r.coll
           /\ last' = [Call("get_inventory", inventory_id, "", NoInt, 0,
                            NoDoc, net, r.resp) EXCEPT !.prev = Before]
    /\ UNCHANGED <<started, fruitIndex, fruits, orders, nextOid, tasks,
                   nextTask, added, issued, written, raced>>

update_inventory(inventory_id, item, net) ==
    /\ started
    /\ LET r == UpdateInventory(inventory, inventory_id, item, net)
       IN  /\ inventory' = r.coll
           /\ written' = IF r.resp.kind = "ok"
                         THEN [written EXCEPT ![ObjectId(inventory_id)] =
                                  [quantity |-> item.quantity,
                                   fruit |-> item.fruit,
                                   last_updated |-> item.last_updated,
                                   by |-> "update_inventory"]]
                         ELSE written
           /\ raced' = IF r.resp.kind = "ok"
                       THEN raced \cup RunningOn(inventory_id) ELSE raced
           /\ last' = Call("update_inventory", inventory_id, "", NoInt, 0,
                           item, net, r.resp)
    /\ UNCHANGED <<started, fruitIndex, fruits, orders, nextOid, tasks,
                   nextTask, added, issued>>

update_inventory_quantity(inventory_id, new_quantity, net) ==
    /\ started
    /\ LET r == UpdateInventoryQuantity(inventory, inventory_id,
                                        new_quantity, net)
       IN  /\ inventory' = r.coll
           /\ written' = IF r.resp.kind = "ok"
                         THEN [written EXCEPT ![ObjectId(inventory_id)] =
                                  [@ EXCEPT !.quantity = new_quantity,
                                            !.by = "update_inventory_quantity"]]
                         ELSE written
           /\ raced' = IF r.resp.kind = "ok"
                       THEN raced \cup RunningOn(inventory_id) ELSE raced
           /\ last' = Call("update_inventory_quantity", inventory_id, "",
                           new_quantity, 0, NoDoc, net, r.resp)
    /\ UNCHANGED <<started, fruitIndex, fruits, orders, nextOid, tasks,
                   nextTask, added, issued>>

delete_inventory(inventory_id, net) ==
    /\ started
    /\ LET r == DeleteInventory(inventory, inventory_id, net)
       IN  /\ inventory' = r.coll
           /\ written' = IF r.resp.kind = "ok"
                         THEN [written EXCEPT ![ObjectId(inventory_id)] = NoDoc]
                         ELSE written
           /\ last' = Call("delete_inventory", inventory_id, "", NoInt, 0,
                           NoDoc, net, r.resp)
    /\ UNCHANGED <<started, fruitIndex, fruits, orders, nextOid, tasks,
                   nextTask, added, issued, raced>>

\* broker: the broker accepts the message; otherwise delay() raises and
\* nothing in the handler catches it.
trigger_inventory_reset(inventory_id, new_quantity, broker) ==
    /\ started
    /\ nextTask < MaxTasks
    /\ tasks' = IF broker
                THEN Delay(tasks, nextTask + 1, inventory_id, new_quantity)
                ELSE tasks
    /\ nextTask' = IF broker THEN nextTask + 1 ELSE nextTask
    /\ last' = Call("trigger_inventory_reset", inventory_id, "",
                    new_quantity, 0, NoDoc, broker,
                    IF broker THEN Ok("", TaskId(nextTask + 1), NoDoc)
                    ELSE Raised("OperationalError"))
    /\ UNCHANGED <<started, fruitIndex, fruits, orders, inventory, nextOid,
                   added, issued, written, raced>>

-----------------------------------------------------------------------------
(* celery_worker.py and tasks.py: the schedule and the worker *)

\* The "reset-daily" entry: beat sends the task with its fixed arguments.
beat_schedule ==
    /\ nextTask < MaxTasks
    /\ tasks' = Delay(tasks, nextTask + 1, BeatId, BeatQuantity)
    /\ nextTask' = nextTask + 1
    /\ last' = Call("beat_schedule", BeatId, "", BeatQuantity, 0, NoDoc,
                    TRUE, Ok("", TaskId(nextTask + 1), NoDoc))
    /\ UNCHANGED <<started, fruitIndex, fruits, orders, inventory, nextOid,
                   added, issued, written, raced>>

\* A worker takes the task and opens its own client (tasks.py lines 10-12).
worker_start(t) ==
    /\ t.status = "queued"
    /\ tasks' = (tasks \ {t}) \cup {[t EXCEPT !.status = "running"]}
    /\ last' = Call("worker_start", t.inventory_id, t.task_id,
                    t.new_quantity, 0, NoDoc, TRUE, Ok("", NoId, NoDoc))
    /\ UNCHANGED <<started, fruitIndex, fruits, orders, inventory, nextOid,
                   nextTask, added, issued, written, raced>>

\* The task's update_one reaches the store and the task ends.
reset_inventory_data(t, net) ==
    /\ t.status = "running"
    /\ LET r == ResetInventoryData(inventory, t.inventory_id,
                                   t.new_quantity, net)
           hit == /\ r.resp.kind = "ok"
                  /\ Matching(inventory, "_id", ObjectId(t.inventory_id)) # {}
       IN  /\ inventory' = r.coll
           /\ written' = IF hit
                         THEN [written EXCEPT ![ObjectId(t.inventory_id)] =
                                  [@ EXCEPT !.quantity = t.new_quantity,
                                            !.by = "reset_inventory_data"]]
                         ELSE written
           /\ last' = Call("reset_inventory_data", t.inventory_id,
                           t.task_id, t.new_quantity, 0, NoDoc, net, r.resp)
    /\ tasks' = tasks \ {t}
    /\ UNCHANGED <<started, fruitIndex, fruits, orders, nextOid, nextTask,
                   added, issued, raced>>

-----------------------------------------------------------------------------

\* The response of the last call has been sent (or the worker has logged
\* the task's outcome).
respond ==
    /\ last.op # "idle"
    /\ last' = Idle
    /\ UNCHANGED <<started, fruitIndex, fruits, orders, inventory, nextOid,
                   tasks, nextTask, added, issued, written, raced>>

Ready == last.op = "idle"

\* The fruit catalog: startup and the four fruit handlers, each call
\* starting once the one before it has been answered.
NextFruit ==
    \/ respond
    \/ Ready /\ \E net \in BOOLEAN : startup_event(net)
    \/ Ready /\ \E fruit \in FruitPayloads, net \in BOOLEAN :
                   add_fruit(fruit, net)
    \/ Ready /\ \E name \in FruitNames, net \in BOOLEAN :
                   get_fruit(name, net)
    \/ Ready /\ \E name \in FruitNames, price \in NewPrices,
                   net \in BOOLEAN :
                   update_fruit_price(name, price, net)
    \/ Ready /\ \E name \in FruitNames, net \in BOOLEAN :
                   delete_fruit(name, net)

SpecFruit == Init /\ [][NextFruit]_vars

\* Inventory items alone: create, read, set the quantity, delete.  A read
\* may also follow another call directly, and then sees which call ran
\* right before it.
NextInv ==
    \/ respond
    \/ Ready /\ \E net \in BOOLEAN : startup_event(net)
    \/ Ready /\ \E item \in InventoryPayloads, net \in BOOLEAN :
                   add_inventory(item, net)
    \/ \E id \in IdStrings, net \in BOOLEAN : get_inventory(id, net)
    \/ Ready /\ \E id \in IdStrings, q \in Quantities, net \in BOOLEAN :
                   update_inventory_quantity(id, q, net)
    \/ Ready /\ \E id \in IdStrings, net \in BOOLEAN :
                   delete_inventory(id, net)

SpecInv == Init /\ [][NextInv]_vars

\* The id strings of the other specifications: an id that has not been
\* issued yet is the well-formed id that matches nothing.
IssuableIds == {OidStr(GenOid(n)) : n \in 1..MaxOids} \cup {Malformed}

\* Every store-backed handler, the store answering each call.
NextCrud ==
    \/ respond
    \/ Ready /\ startup_event(TRUE)
    \/ Ready /\ \E fruit \in {Apple, Mango} : add_fruit(fruit, TRUE)
    \/ Ready /\ get_fruit("Apple", TRUE)
    \/ Ready /\ \E price \in NewPrices :
                   update_fruit_price("Apple", price, TRUE)
    \/ Ready /\ \E name \in {"Apple", "Mango"} : delete_fruit(name, TRUE)
    \/ Ready /\ \E order \in OrderPayloads : place_order(order, TRUE)
    \/ Ready /\ \E id \in IssuableIds : get_order(id, TRUE)
    \/ Ready /\ \E id \in IssuableIds, order \in OrderPayloads :
                   update_order(id, order, TRUE)
    \/ Ready /\ \E id \in IssuableIds : delete_order(id, TRUE)
    \/ Ready /\ \E item \in InventoryPayloads : add_inventory(item, TRUE)
    \/ Ready /\ \E id \in IssuableIds : get_inventory(id, TRUE)
    \/ Ready /\ \E id \in IssuableIds, item \in InventoryPayloads :
                   update_inventory(id, item, TRUE)
    \/ Ready /\ \E id \in IssuableIds, q \in Quantities :
                   update_inventory_quantity(id, q, TRUE)
    \/ Ready /\ \E id \in IssuableIds : delete_inventory(id, TRUE)

SpecCrud == Init /\ [][NextCrud]_vars

\* The quantities a client asks the task to set: they differ from those the
\* handlers write.
ResetQuantities == {<<3>>, Big}

\* The ids a client asks the task to reset: the first id the service
\* issues, which names an inventory item, another document or nothing yet,
\* and a malformed one.
ResetIds == {OidStr(GenOid(1)), Malformed}

\* The bodies sent beside the task: apples are stocked, an update turns the
\* item into mangoes, and one order is placed.
AppleStock == {item \in InventoryPayloads : item.fruit = Apple}

MangoStock == {item \in InventoryPayloads : item.fruit = Mango}

StockOrders == {order \in OrderPayloads : order.fruit_name = "Mango"}

\* The Reset Task beside the API: the trigger, the schedule, the worker,
\* and the handlers that write inventory, with a fruit and an order stored.
NextTask ==
    \/ respond
    \/ Ready /\ startup_event(TRUE)
    \/ Ready /\ add_fruit(Apple, TRUE)
    \/ Ready /\ \E order \in StockOrders : place_order(order, TRUE)
    \/ Ready /\ \E item \in AppleStock : add_inventory(item, TRUE)
    \/ Ready /\ \E id \in IssuableIds, item \in MangoStock :
                   update_inventory(id, item, TRUE)
    \/ Ready /\ \E id \in IssuableIds, q \in Quantities :
                   update_inventory_quantity(id, q, TRUE)
    \/ Ready /\ \E id \in ResetIds, q \in ResetQuantities,
                   broker \in BOOLEAN :
                   trigger_inventory_reset(id, q, broker)
    \/ Ready /\ beat_schedule
    \/ Ready /\ \E t \in tasks : worker_start(t)
    \/ Ready /\ \E t \in tasks, net \in BOOLEAN : reset_inventory_data(t, net)

SpecTask == Init /\ [][NextTask]_vars

-----------------------------------------------------------------------------
(* The fruit catalog *)

\* C1: no two fruit records have the same name; add_fruit with a name that
\* is already there answers with an error payload that carries no fruit_id
\* (a DuplicateKeyError once the document reaches the store) and the fruits
\* collection is what it was.
C1_UniqueName ==
    /\ \A a, b \in fruits : a.name = b.name => a = b
    /\ (last.op = "add_fruit" /\ last.name \in NamesIn(last.pre.fruits)) =>
          /\ last.resp.kind = "error"
          /\ last.resp.id = NoId
          /\ fruits = last.pre.fruits
          /\ (last.net /\ FitsInt64(last.body.shelf_life_days)) =>
                last.resp.exc = "DuplicateKeyError"

\* C1 witness: a second Apple, with other field values, was refused.
C1_Witness ==
    /\ last.op = "add_fruit"
    /\ last.net
    /\ last.resp.kind = "error"
    /\ \E d \in fruits : d.name = last.name /\ d.region # last.body.region

\* What get_fruit answers for a record stored from payload f under id.
FruitRecord(f, id) ==
    [_id |-> id, name |-> f.name, region |-> f.region, season |-> f.season,
     shelf_life_days |-> f.shelf_life_days, price |-> f.price,
     ripe |-> f.ripe]

\* get_fruit(name) after add_fruit(F), nothing having updated or deleted the
\* name since, answers with F's fields and the id add_fruit returned.
GetAfterAdd ==
    (last.op = "get_fruit" /\ last.net /\ added[last.name] # NoDoc) =>
        /\ last.resp.kind = "ok"
        /\ last.resp.doc = FruitRecord(added[last.name].fruit,
                                       added[last.name].fruit_id)

\* add_fruit answered with an id that no stored document had.
AddedFresh ==
    /\ last.resp.kind = "ok"
    /\ last.resp.id \notin IdsIn(last.pre.fruits)
    /\ last.resp.id \in IdsIn(fruits)
    /\ added[last.name] = [fruit |-> last.body, fruit_id |-> last.resp.id]

\* C2 as stated: every valid Fruit payload whose name is not in the catalog
\* is added (the store answering), and a later get_fruit returns it.
C2_Original ==
    /\ (last.op = "add_fruit" /\ last.net
          /\ last.name \notin NamesIn(last.pre.fruits)) => AddedFresh
    /\ GetAfterAdd

\* C2 amended: the same for the payloads whose shelf_life_days BSON can
\* encode (below 2^63); a larger one is answered with an error payload and
\* nothing is stored.
C2_AddThenGet ==
    /\ (last.op = "add_fruit" /\ last.net
          /\ last.name \notin NamesIn(last.pre.fruits)) =>
          IF FitsInt64(last.body.shelf_life_days) THEN AddedFresh
          ELSE /\ last.resp.kind = "error"
               /\ last.resp.exc = "OverflowError"
               /\ fruits = last.pre.fruits
    /\ GetAfterAdd

\* C2 witness: get_fruit returned a record added earlier, another call
\* having run in between.
C2_Witness ==
    /\ last.op = "get_fruit"
    /\ last.resp.kind = "ok"
    /\ added[last.name] # NoDoc
    /\ Cardinality(fruits) = 2

ApiOps ==
    {"add_fruit", "get_fruit", "update_fruit_price", "delete_fruit",
     "place_order", "get_order", "update_order", "delete_order",
     "add_inventory", "get_inventory", "update_inventory",
     "update_inventory_quantity", "delete_inventory"}

\* C3: a store operation that fails inside any API operation is answered
\* with an {"error": ...} payload; no exception leaves the handler.
C3_FailuresCaught ==
    (last.op \in ApiOps /\ ~last.net) => last.resp.kind = "error"

\* C6: update_fruit_price for a name that is not in the catalog leaves the
\* fruits collection as it was and, the store answering, returns the
\* "Fruit not found" error.
C6_NoUpsert ==
    (last.op = "update_fruit_price"
        /\ last.name \notin NamesIn(last.pre.fruits)) =>
        /\ fruits = last.pre.fruits
        /\ last.net => last.resp = Err("Fruit not found", "")

\* C6 witness: the price of an absent Mango was set while Apple was stored.
C6_Witness ==
    /\ last.op = "update_fruit_price"
    /\ last.net
    /\ last.name = "Mango"
    /\ NamesIn(last.pre.fruits) = {"Apple"}


-----------------------------------------------------------------------------
(* Inventory items *)

\* update_inventory_quantity(id, q) ran right before this get_inventory(id),
\* and the store answered both.
GetRightAfterUpdate ==
    /\ last.op = "get_inventory"
    /\ last.prev.op = "update_inventory_quantity"
    /\ last.prev.id = last.id
    /\ last.net
    /\ last.prev.net

\* C4 as stated: for any id add_inventory has returned and any q >= 0,
\* get_inventory right after update_inventory_quantity returns quantity q.
C4_Original ==
    (GetRightAfterUpdate /\ last.id \in issued.inventory) =>
        /\ last.resp.kind = "ok"
        /\ last.resp.doc.quantity = last.prev.num

\* C4 amended: for the id of an inventory record that exists when the
\* update is called (not deleted since add_inventory returned it) and any
\* q with 0 <= q < 2^63, update_inventory_quantity succeeds and the
\* get_inventory right after it returns that record with quantity q.
C4_UpdateThenGet ==
    (/\ GetRightAfterUpdate
     /\ last.id \in IdsIn(last.pre.inventory)
     /\ FitsInt64(last.prev.num)) =>
        /\ last.id \in issued.inventory
        /\ last.prev.kind = "ok"
        /\ last.resp.kind = "ok"
        /\ last.resp.doc._id = last.id
        /\ last.resp.doc.quantity = last.prev.num

\* C4 witness: the quantity 7 was set and read back from a record that was
\* created with another quantity.
C4_Witness ==
    /\ GetRightAfterUpdate
    /\ last.prev.kind = "ok"
    /\ last.resp.kind = "ok"
    /\ last.resp.doc.quantity = <<7>>

-----------------------------------------------------------------------------
(* Ids that match nothing; what a handler may touch *)

OrderOps == {"get_order", "update_order", "delete_order"}

InventoryOps == {"get_inventory", "update_inventory",
                 "update_inventory_quantity", "delete_inventory"}

\* The id of the last call is malformed or names no document of the
\* collection the call works on.
NoMatch ==
    \/ ~ValidOidStr(last.id)
    \/ /\ last.op \in OrderOps
       /\ ObjectId(last.id) \notin OidsIn(last.pre.orders)
    \/ /\ last.op \in InventoryOps
       /\ ObjectId(last.id) \notin OidsIn(last.pre.inventory)

CollectionsUnchanged ==
    /\ fruits = last.pre.fruits
    /\ orders = last.pre.orders
    /\ inventory = last.pre.inventory

NotFoundMessage ==
    IF last.op \in OrderOps THEN "Order not found"
    ELSE "Inventory item not found"

\* C7: delete_order with a well-formed id that place_order never returned
\* answers "Order not found"; every id-keyed operation on orders and
\* inventory called with an id that is malformed or matches no document
\* answers with an error payload (InvalidId for a malformed id, the
\* not-found message for a well-formed one) and leaves the three
\* collections as they were.
C7_UnknownId ==
    /\ (/\ last.op = "delete_order"
        /\ ValidOidStr(last.id)
        /\ OidStr(ObjectId(last.id)) \notin issued.orders) =>
          last.resp = Err("Order not found", "")
    /\ (last.op \in OrderOps \cup InventoryOps /\ NoMatch) =>
          /\ last.resp.kind = "error"
          /\ CollectionsUnchanged
          /\ ~ValidOidStr(last.id) => last.resp.exc = "InvalidId"
          /\ (ValidOidStr(last.id) /\ last.resp.exc = "") =>
                last.resp.message = NotFoundMessage
          /\ (ValidOidStr(last.id)
                /\ last.op \in {"get_order", "delete_order",
                                "get_inventory", "delete_inventory"}) =>
                last.resp.exc = ""

\* C7 witness: delete_order was called with the id of an inventory item
\* while an order was stored.
C7_Witness ==
    /\ last.op = "delete_order"
    /\ last.id \in issued.inventory
    /\ orders # {}
    /\ last.resp.kind = "error"

\* At most one document of one collection was written.
OneWrite ==
    /\ Cardinality(fruits \ last.pre.fruits) <= 1
    /\ Cardinality(last.pre.fruits \ fruits) <= 1
    /\ Cardinality(orders \ last.pre.orders) <= 1
    /\ Cardinality(last.pre.orders \ orders) <= 1
    /\ Cardinality(inventory \ last.pre.inventory) <= 1
    /\ Cardinality(last.pre.inventory \ inventory) <= 1
    /\ \A d \in fruits \ last.pre.fruits :
          \A p \in last.pre.fruits \ fruits : p._id = d._id
    /\ \A d \in orders \ last.pre.orders :
          \A p \in last.pre.orders \ orders : p._id = d._id
    /\ \A d \in inventory \ last.pre.inventory :
          \A p \in last.pre.inventory \ inventory : p._id = d._id
    /\ Cardinality({c \in {"fruits", "orders", "inventory"} :
                      Store[c] # last.pre[c]}) <= 1

\* C10: every API operation writes at most one document of one collection;
\* place_order, update_order and delete_order leave fruits and inventory as
\* they were, and place_order of an order BSON can encode succeeds whether
\* or not the catalog has its fruit_name; delete_fruit leaves orders and
\* inventory as they were.
C10_OneWriteNoCoupling ==
    /\ last.op \in ApiOps => OneWrite
    /\ last.op \in {"place_order", "update_order", "delete_order"} =>
          /\ fruits = last.pre.fruits
          /\ inventory = last.pre.inventory
    /\ (last.op = "place_order" /\ last.net) =>
          (last.resp.kind = "ok" <=> FitsInt64(last.body.quantity))
    /\ last.op = "delete_fruit" =>
          /\ orders = last.pre.orders
          /\ inventory = last.pre.inventory

\* C10 witness: an order was placed for a fruit the catalog, which is not
\* empty, does not have.
C10_Witness ==
    /\ last.op = "place_order"
    /\ last.resp.kind = "ok"
    /\ fruits # {}
    /\ last.body.fruit_name \notin NamesIn(fruits)


-----------------------------------------------------------------------------
(* The Reset Task *)

\* The task that trigger_inventory_reset has just put on the queue.
Enqueued ==
    [task_id |-> last.resp.id, inventory_id |-> last.id,
     new_quantity |-> last.num, status |-> "queued"]

\* C5: trigger_inventory_reset(id, q), the broker taking the message, puts
\* exactly one task (id, q) on the queue and touches no collection; when
\* that task has run, the three collections are what
\* update_inventory_quantity(id, q) would have made of the store the task
\* found, for an id that matches, matches nothing or is malformed.
C5_ResetAsUpdate ==
    /\ (last.op = "trigger_inventory_reset" /\ last.net) =>
          /\ Enqueued \notin last.pre.tasks
          /\ tasks = last.pre.tasks \cup {Enqueued}
          /\ CollectionsUnchanged
    /\ (last.op = "trigger_inventory_reset" /\ ~last.net) =>
          /\ tasks = last.pre.tasks
          /\ CollectionsUnchanged
    /\ last.op = "reset_inventory_data" =>
          /\ inventory = UpdateInventoryQuantity(last.pre.inventory, last.id,
                                                 last.num, last.net).coll
          /\ fruits = last.pre.fruits
          /\ orders = last.pre.orders

\* C5 witness: a triggered task has changed the quantity of a record.
C5_Witness ==
    /\ last.op = "reset_inventory_data"
    /\ last.id # BeatId
    /\ inventory # last.pre.inventory

\* The task's id is well formed and names a record the task found.
TaskMatched ==
    /\ ValidOidStr(last.id)
    /\ ObjectId(last.id) \in OidsIn(last.pre.inventory)

\* Only the quantity of the record named by the task's id differs.
OnlyQuantityOfTarget ==
    /\ fruits = last.pre.fruits
    /\ orders = last.pre.orders
    /\ OidsIn(inventory) = OidsIn(last.pre.inventory)
    /\ Cardinality(inventory) = Cardinality(last.pre.inventory)
    /\ \A d \in inventory : \E p \in last.pre.inventory :
          /\ p._id = d._id
          /\ p.fruit = d.fruit
          /\ p.last_updated = d.last_updated
          /\ d.quantity # p.quantity =>
                /\ TaskMatched
                /\ d._id = ObjectId(last.id)
                /\ d.quantity = last.num

\* C8 as stated: a run changes at most the quantity of the record its id
\* names, and when no record matches (the store answering) nothing changes
\* and the task returns its acknowledgement.
C8_Original ==
    last.op = "reset_inventory_data" =>
        /\ OnlyQuantityOfTarget
        /\ (~TaskMatched /\ last.net) =>
              /\ inventory = last.pre.inventory
              /\ last.resp = Ok("Reset inventory data", NoId, NoDoc)

\* C8 amended: a run changes at most the quantity of the record its id
\* names.  When no record matches nothing changes and nothing is created;
\* the task then returns its acknowledgement if the id is well formed and
\* the quantity is below 2^63 (the store answering), and ends with
\* InvalidId for a malformed id and OverflowError for a larger quantity.
C8_OnlyQuantity ==
    last.op = "reset_inventory_data" =>
        /\ OnlyQuantityOfTarget
        /\ ~TaskMatched => inventory = last.pre.inventory
        /\ (~TaskMatched /\ last.net) =>
              last.resp =
                 IF ~ValidOidStr(last.id) THEN Raised("InvalidId")
                 ELSE IF ~FitsInt64(last.num) THEN Raised("OverflowError")
                 ELSE Ok("Reset inventory data", NoId, NoDoc)

\* C8 witness: the scheduled task, whose id matches nothing, has run beside
\* a stored inventory item, a fruit or an order.
C8_Witness ==
    /\ last.op = "reset_inventory_data"
    /\ last.id = BeatId
    /\ last.resp = Ok("Reset inventory data", NoId, NoDoc)
    /\ inventory # {}
    /\ fruits \cup orders # {}

\* C9: whatever the order in which the store applies a task's write and the
\* API's writes to a record, the record's quantity is that of the write
\* applied last and its fruit and last_updated are those of the last
\* whole-item write (add_inventory or update_inventory); a stored record is
\* never a mix.
C9_LastWriteWins ==
    /\ \A d \in inventory :
          /\ written[d._id] # NoDoc
          /\ d.quantity = written[d._id].quantity
          /\ d.fruit = written[d._id].fruit
          /\ d.last_updated = written[d._id].last_updated
    /\ \A o \in AllOids : written[o] # NoDoc => o \in OidsIn(inventory)
    /\ last.op \in {"update_inventory_quantity", "reset_inventory_data"} =>
          \A d \in inventory \ last.pre.inventory :
             \E p \in last.pre.inventory :
                d = [p EXCEPT !.quantity = last.num]
    /\ last.op = "update_inventory" =>
          \A d \in inventory \ last.pre.inventory :
             d = SetFields(InventoryDict(last.body), [_id |-> d._id])

\* C9 witness: a task started, update_inventory then replaced its record,
\* and the task's write landed on top of it.
C9_Witness ==
    /\ last.op = "reset_inventory_data"
    /\ last.name \in raced
    /\ \E d \in inventory :
          /\ written[d._id].by = "reset_inventory_data"
          /\ d.quantity = last.num
          /\ \E p \in last.pre.inventory :
                /\ p._id = d._id
                /\ p.quantity # d.quantity
                /\ \E item \in InventoryPayloads :
                      /\ p.quantity = item.quantity
                      /\ p.fruit # Apple

=============================================================================
